---- MODULE Spec2Model ----
(***************************************************************************)
(* Evalio scoring engine: the rubric scorer (ml/scoring/rubric_scorer.py), *)
(* the TF-IDF similarity scorer and the hybrid combiner                    *)
(* (ml/scoring/similarity_scorer.py) and the orchestrator (ml/evaluate.py).*)
(*                                                                         *)
(* Representation.                                                         *)
(*  - A Python str is a sequence of one-character strings.                 *)
(*  - A Python dict (rubric item, result) is a record; an optional key is  *)
(*    a field that may be absent from the record's DOMAIN.                 *)
(*  - Numbers are fixed-point integers.  Fields named as in the source     *)
(*    carry these units: weight, max_score in points; earned, score,       *)
(*    percentage, final_percentage, contribution in hundredths (the two    *)
(*    decimals the source rounds to); confidence and similarity_score in   *)
(*    ten-thousandths (the four decimals the source rounds to); the        *)
(*    combiner's weights in thousandths.                                   *)
(***************************************************************************)
EXTENDS Integers, Sequences, FiniteSets, TLC

VARIABLES
    rubricScorer,   \* the RubricScorer object: case_sensitive, partial_match
    simScorer,      \* the SimilarityScorer object: ngram_range, min_df, vectorizer
    heap,           \* the TfidfVectorizer objects: fitted idf vector of each
    hybrid,         \* the HybridScorer the caller holds: <<>> or <<object>>
    pending,        \* the calls the caller is about to make, in order
    last,           \* the last completed call: op, arguments, result
    pc,             \* per thread: position inside calculate_similarity
    targs,          \* per thread: arguments of its calculate_similarity call
    tvec,           \* per thread: the vectorizer object its fit_transform runs on
    tres            \* per thread: returned result, <<>> until it returns

vars == <<rubricScorer, simScorer, heap, hybrid, pending, last, pc, targs, tvec, tres>>

-----------------------------------------------------------------------------
(* Characters and strings                                                  *)

UpperChars == <<"A","B","C","D","E","F","G","H","I","J","K","L","M","N","O","P","Q","R","S","T","U","V","W","X","Y","Z">>
LowerChars == <<"a","b","c","d","e","f","g","h","i","j","k","l","m","n","o","p","q","r","s","t","u","v","w","x","y","z">>
DigitChars == <<"0","1","2","3","4","5","6","7","8","9">>
SpaceChars == {" ", "\t", "\n"}

\* the concatenation F(lo) \o ... \o F(hi): a list comprehension or a loop
\* that appends
RECURSIVE FlatMap(_, _, _)
FlatMap(F(_), lo, hi) ==
    IF lo > hi THEN <<>>
    ELSE IF lo = hi THEN F(lo)
    ELSE LET mid == (lo + hi) \div 2
         IN  FlatMap(F, lo, mid) \o FlatMap(F, mid + 1, hi)

\* sum(F(i) for i in range(lo, hi + 1))
RECURSIVE SumOver(_, _, _)
SumOver(F(_), lo, hi) ==
    IF lo > hi THEN 0
    ELSE IF lo = hi THEN F(lo)
    ELSE LET mid == (lo + hi) \div 2
         IN  SumOver(F, lo, mid) + SumOver(F, mid + 1, hi)

\* str.lower() on one character
LowerChar(c) ==
    IF \E i \in 1..Len(UpperChars) : UpperChars[i] = c
    THEN LowerChars[CHOOSE i \in 1..Len(UpperChars) : UpperChars[i] = c]
    ELSE c

lower(text) == FlatMap(LAMBDA i : <<LowerChar(text[i])>>, 1, Len(text))

IsSpace(c) == c \in SpaceChars

\* \w of the regular expressions
IsWordChar(c) ==
    \/ \E i \in 1..Len(UpperChars) : UpperChars[i] = c \/ LowerChars[i] = c
    \/ \E i \in 1..Len(DigitChars) : DigitChars[i] = c
    \/ c = "_"

\* str.strip()
strip(text) ==
    LET idx == {i \in 1..Len(text) : ~IsSpace(text[i])}
    IN  IF idx = {} THEN <<>>
        ELSE LET lo == CHOOSE i \in idx : \A j \in idx : i <= j
                 hi == CHOOSE i \in idx : \A j \in idx : i >= j
             IN  SubSeq(text, lo, hi)

\* re.sub(r'\s+', ' ', text): every maximal run of whitespace becomes one space
CollapseWhitespace(text) ==
    FlatMap(LAMBDA i : IF ~IsSpace(text[i]) THEN <<text[i]>>
                       ELSE IF i > 1 /\ IsSpace(text[i - 1]) THEN <<>>
                       ELSE <<" ">>,
            1, Len(text))

\* `needle in hay`
Contains(needle, hay) ==
    \E i \in 0..(Len(hay) - Len(needle)) :
        \A j \in 1..Len(needle) : hay[i + j] = needle[j]

\* \b at position p (between hay[p] and hay[p+1])
WordBoundary(hay, p) ==
    LET before == p >= 1 /\ p <= Len(hay) /\ IsWordChar(hay[p])
        after  == p + 1 >= 1 /\ p + 1 <= Len(hay) /\ IsWordChar(hay[p + 1])
    IN  before # after

\* re.search(r'\b' + re.escape(needle) + r'\b', hay)
SearchWord(needle, hay) ==
    \E i \in 0..(Len(hay) - Len(needle)) :
        /\ \A j \in 1..Len(needle) : hay[i + j] = needle[j]
        /\ WordBoundary(hay, i)
        /\ WordBoundary(hay, i + Len(needle))

\* variant: only the empty string counts as blank
IsBlankEmptyOnly(text) == text = <<>>

\* `not s or not s.strip()`
IsBlank(text) == text = <<>> \/ strip(text) = <<>>

\* len(text.split())
WordCount(text) ==
    Cardinality({i \in 1..Len(text) : ~IsSpace(text[i]) /\ (i = 1 \/ IsSpace(text[i - 1]))})

\* dict.get(key, default)
Get(d, key, default) == IF key \in DOMAIN d THEN d[key] ELSE default

\* round(num/den, n) where num/den is already scaled to the n-th decimal:
\* Python rounds the exact half to the even neighbour
Round(num, den) ==
    LET q == num \div den
        r == num % den
    IN  IF 2 * r < den THEN q
        ELSE IF 2 * r > den THEN q + 1
        ELSE IF q % 2 = 0 THEN q ELSE q + 1

-----------------------------------------------------------------------------
(* RubricScorer                                                            *)

RubricScorerNew(case_sensitive, partial_match) ==
    [case_sensitive |-> case_sensitive, partial_match |-> partial_match]

create_default_scorer == RubricScorerNew(FALSE, TRUE)

\* if not self.case_sensitive: text = text.lower()
FoldCase(self, text) == IF ~self.case_sensitive THEN lower(text) ELSE text

normalize_text(self, text) == FoldCase(self, CollapseWhitespace(strip(text)))

\* variant: whole-word matching whatever partial_match says
KeywordFoundWholeWord(self, normalized_keyword, normalized_answer) ==
    SearchWord(normalized_keyword, normalized_answer)

\* the test of one normalized keyword against the normalized answer
KeywordFound(self, normalized_keyword, normalized_answer) ==
    IF self.partial_match
    THEN Contains(normalized_keyword, normalized_answer)
    ELSE SearchWord(normalized_keyword, normalized_answer)

\* The loop of keyword_match.  The dict it fills is the sequence of its items
\* in insertion order: a keyword that repeats in the list is one key.
MatchKeywords(self, keywords, normalized_answer) ==
    FlatMap(LAMBDA i : IF \E j \in 1..(i - 1) : keywords[j] = keywords[i]
                       THEN <<>>
                       ELSE <<[keyword |-> keywords[i],
                               found |-> KeywordFound(self,
                                             normalize_text(self, keywords[i]),
                                             normalized_answer)]>>,
            1, Len(keywords))

keyword_match(self, keywords, student_answer) ==
    MatchKeywords(self, keywords, normalize_text(self, student_answer))

\* [kw for kw, found in keyword_matches.items() if found == want]
KeysWhere(matches, want) ==
    FlatMap(LAMBDA i : IF matches[i].found = want THEN <<matches[i].keyword>> ELSE <<>>,
            1, Len(matches))

\* One pass of the loop over the rubric.  total_score is the exact fraction
\* total_num / total_den of the float the source accumulates.
CreditItem(rubric_item, keyword_matches, matched_keywords, acc) ==
    LET keypoint == rubric_item.keypoint
        keywords == Get(rubric_item, "keywords", <<>>)
        weight == rubric_item.weight
        required == Get(rubric_item, "required", FALSE)
        \* coverage_ratio = cov_num / cov_den
        cov_num == IF keywords # <<>> THEN Len(matched_keywords) ELSE 0
        cov_den == IF keywords # <<>> THEN Len(keywords) ELSE 1
    IN  IF matched_keywords # <<>>
        THEN [acc EXCEPT
                !.total_num = acc.total_num * cov_den + weight * cov_num * acc.total_den,
                !.total_den = acc.total_den * cov_den,
                !.max_score = acc.max_score + weight,
                !.matched_keypoints = Append(acc.matched_keypoints, keypoint),
                !.breakdown = Append(acc.breakdown,
                    [keypoint |-> keypoint,
                     weight |-> weight,
                     earned |-> Round(100 * weight * cov_num, cov_den),
                     matched_keywords |-> matched_keywords,
                     missing_keywords |-> KeysWhere(keyword_matches, FALSE),
                     status |-> IF cov_num < cov_den THEN "partial" ELSE "complete"])]
        ELSE [acc EXCEPT
                !.max_score = acc.max_score + weight,
                !.missing_keypoints = Append(acc.missing_keypoints, keypoint),
                !.breakdown = Append(acc.breakdown,
                    [keypoint |-> keypoint,
                     weight |-> weight,
                     earned |-> 0,
                     matched_keywords |-> <<>>,
                     missing_keywords |-> keywords,
                     status |-> "missing",
                     required |-> required])]

\* matched_keywords of the item's keyword_matches, then the credit
MatchedItem(rubric_item, keyword_matches, acc) ==
    CreditItem(rubric_item, keyword_matches, KeysWhere(keyword_matches, TRUE), acc)

ScoreItem(self, student_answer, rubric_item, acc) ==
    MatchedItem(rubric_item,
                keyword_match(self, Get(rubric_item, "keywords", <<>>), student_answer),
                acc)

RECURSIVE ScoreLoop(_, _, _, _, _)
ScoreLoop(self, student_answer, rubric, i, acc) ==
    IF i > Len(rubric) THEN acc
    ELSE ScoreLoop(self, student_answer, rubric, i + 1,
                   ScoreItem(self, student_answer, rubric[i], acc))

\* variant: the score is the sum of the rounded earned values of the breakdown
RubricResultSumOfEarned(acc) ==
    [score |-> SumOver(LAMBDA i : acc.breakdown[i].earned, 1, Len(acc.breakdown)),
     max_score |-> acc.max_score,
     percentage |-> IF acc.max_score > 0
                    THEN Round(100 * 100 * acc.total_num, acc.total_den * acc.max_score)
                    ELSE 0,
     matched_keypoints |-> acc.matched_keypoints,
     missing_keypoints |-> acc.missing_keypoints,
     breakdown |-> acc.breakdown]

\* the percentage and the returned dict, from what the loop accumulated
RubricResult(acc) ==
    [score |-> Round(100 * acc.total_num, acc.total_den),
     max_score |-> acc.max_score,
     percentage |-> IF acc.max_score > 0
                    THEN Round(100 * 100 * acc.total_num, acc.total_den * acc.max_score)
                    ELSE 0,
     matched_keypoints |-> acc.matched_keypoints,
     missing_keypoints |-> acc.missing_keypoints,
     breakdown |-> acc.breakdown]

SumWeights(rubric) == SumOver(LAMBDA i : rubric[i].weight, 1, Len(rubric))

\* variant: a blank model answer gates the scoring like a blank student answer
score_answer_gated(self, student_answer, model_answer, rubric) ==
    IF IsBlank(student_answer) \/ IsBlank(model_answer)
    THEN [score |-> 0,
          max_score |-> SumWeights(rubric),
          percentage |-> 0,
          matched_keypoints |-> <<>>,
          missing_keypoints |-> FlatMap(LAMBDA i : <<rubric[i].keypoint>>, 1, Len(rubric)),
          breakdown |-> <<>>]
    ELSE RubricResult(ScoreLoop(self, student_answer, rubric, 1,
                        [total_num |-> 0, total_den |-> 1, max_score |-> 0,
                         matched_keypoints |-> <<>>, missing_keypoints |-> <<>>,
                         breakdown |-> <<>>]))

score_answer(self, student_answer, model_answer, rubric) ==
    IF IsBlank(student_answer)
    THEN [score |-> 0,
          max_score |-> SumWeights(rubric),
          percentage |-> 0,
          matched_keypoints |-> <<>>,
          missing_keypoints |-> FlatMap(LAMBDA i : <<rubric[i].keypoint>>, 1, Len(rubric)),
          breakdown |-> <<>>]
    ELSE RubricResult(ScoreLoop(self, student_answer, rubric, 1,
                        [total_num |-> 0, total_den |-> 1, max_score |-> 0,
                         matched_keypoints |-> <<>>, missing_keypoints |-> <<>>,
                         breakdown |-> <<>>]))

-----------------------------------------------------------------------------
(* SimilarityScorer: TF-IDF vector space and cosine similarity             *)

SimilarityScorerNew(ngram_range, min_df) ==
    [ngram_range |-> ngram_range, min_df |-> min_df, vectorizer |-> 0]

create_default_similarity_scorer == SimilarityScorerNew(<<1, 2>>, 1)

\* stop_words='english': the words of the library's list that the inputs use
StopWords ==
    {<<"t","h","e">>, <<"i","s">>, <<"a","n","d">>, <<"o","f">>, <<"a","t">>, <<"b","y">>, <<"i","n">>, <<"i","n","t","o">>, <<"t","o">>,
     <<"t","h","e","i","r">>, <<"w","h","e","r","e">>, <<"w","h","i","c","h">>}

\* lowercase=True and the default token pattern \b\w\w+\b: the maximal runs of
\* word characters that are at least two characters long
TokenEnd(text, i) ==
    CHOOSE j \in i..Len(text) :
        /\ \A k \in i..j : IsWordChar(text[k])
        /\ j = Len(text) \/ ~IsWordChar(text[j + 1])

FindTokens(t) ==
    FlatMap(LAMBDA i : IF /\ IsWordChar(t[i])
                          /\ i = 1 \/ ~IsWordChar(t[i - 1])
                          /\ TokenEnd(t, i) > i
                       THEN <<SubSeq(t, i, TokenEnd(t, i))>>
                       ELSE <<>>,
            1, Len(t))

Tokens(text) == FindTokens(lower(text))

RemoveStopWords(tokens) ==
    FlatMap(LAMBDA i : IF tokens[i] \in StopWords THEN <<>> ELSE <<tokens[i]>>,
            1, Len(tokens))

\* " ".join(tokens[i : i + n])
JoinTokens(tokens, i, n) ==
    FlatMap(LAMBDA k : IF k = i THEN tokens[k] ELSE <<" ">> \o tokens[k], i, i + n - 1)

NgramsOfSize(tokens, n) ==
    FlatMap(LAMBDA i : <<JoinTokens(tokens, i, n)>>, 1, Len(tokens) - n + 1)

\* the unigrams, then the bigrams, ... of the tokens left after stop words
WordNgrams(tokens, min_n, max_n) ==
    FlatMap(LAMBDA n : NgramsOfSize(tokens, n), min_n, max_n)

\* the vectorizer's analyzer: the terms of one document, with repetitions
Analyze(self, doc) ==
    WordNgrams(RemoveStopWords(Tokens(doc)), self.ngram_range[1], self.ngram_range[2])

TermCount(terms, term) == Cardinality({i \in 1..Len(terms) : terms[i] = term})

\* corpus = [model_answer, student_answer] + additional_context
Corpus(student_answer, model_answer, additional_context) ==
    <<model_answer, student_answer>> \o additional_context

\* the analyzed documents of a corpus
AnalyzeAll(self, corpus) == FlatMap(LAMBDA d : <<Analyze(self, corpus[d])>>, 1, Len(corpus))

AllTerms(docs) == UNION {{docs[d][i] : i \in 1..Len(docs[d])} : d \in 1..Len(docs)}

DocFrequency(docs, term) ==
    Cardinality({d \in 1..Len(docs) : \E i \in 1..Len(docs[d]) : docs[d][i] = term})

\* the terms min_df keeps
KeptTerms(self, docs) == {t \in AllTerms(docs) : DocFrequency(docs, t) >= self.min_df}

\* code point order of the characters that terms are made of
CharOrder == <<" ">> \o DigitChars \o <<"_">> \o LowerChars

Ord(c) == CHOOSE i \in 1..Len(CharOrder) : CharOrder[i] = c

RECURSIVE TermLess(_, _, _)
TermLess(a, b, i) ==
    IF i > Len(a) THEN i <= Len(b)
    ELSE IF i > Len(b) THEN FALSE
    ELSE IF a[i] = b[i] THEN TermLess(a, b, i + 1)
    ELSE Ord(a[i]) < Ord(b[i])

\* vocabulary_: the kept terms in sorted order, a term's feature index is its
\* position
SortTerms(S) ==
    FlatMap(LAMBDA k : <<CHOOSE t \in S : Cardinality({u \in S : TermLess(u, t, 1)}) = k - 1>>,
            1, Cardinality(S))

\* smooth idf, ln((1 + n) / (1 + df)) + 1, in tenths
IdfTenths(n, df) ==
    IF df >= n THEN 10
    ELSE CASE n = 2 -> 14
           [] n = 3 -> (IF df = 1 THEN 17 ELSE 13)
           [] n = 4 -> (IF df = 1 THEN 19 ELSE IF df = 2 THEN 15 ELSE 12)
           [] OTHER -> (IF df = 1 THEN 21 ELSE IF df = 2 THEN 17
                        ELSE IF df = 3 THEN 14 ELSE 12)

\* fit_transform up to the fitted state: the ValueError the library raises, or
\* the idf vector the vectorizer object now holds and X, the term counts of
\* the documents over the sorted vocabulary (local to the call)
FitVocabulary(docs, vocabulary) ==
    IF vocabulary = <<>>
    THEN [ok |-> FALSE,
          error |-> "After pruning, no terms remain. Try a lower min_df or a higher max_df."]
    ELSE [ok |-> TRUE,
          idf |-> FlatMap(LAMBDA k : <<IdfTenths(Len(docs),
                                                 DocFrequency(docs, vocabulary[k]))>>,
                          1, Len(vocabulary)),
          X |-> FlatMap(LAMBDA d :
                          <<FlatMap(LAMBDA k : <<TermCount(docs[d], vocabulary[k])>>,
                                    1, Len(vocabulary))>>,
                        1, Len(docs))]

FitDocs(self, docs) ==
    IF AllTerms(docs) = {}
    THEN [ok |-> FALSE,
          error |-> "empty vocabulary; perhaps the documents only contain stop words"]
    ELSE IF Len(docs) < self.min_df
    THEN [ok |-> FALSE, error |-> "max_df corresponds to < documents than min_df"]
    ELSE FitVocabulary(docs, SortTerms(KeptTerms(self, docs)))

Fit(self, corpus) == FitDocs(self, AnalyzeAll(self, corpus))

Max(a, b) == IF a >= b THEN a ELSE b
Min(a, b) == IF a <= b THEN a ELSE b

Dot(u, v) == SumOver(LAMBDA k : u[k] * v[k], 1, Len(u))

\* Natural numbers beyond the machine word, as base-1000 digits, least
\* significant first: the products under the square root of the norms
RECURSIVE BigNat(_)
BigNat(n) == IF n = 0 THEN <<>> ELSE <<n % 1000>> \o BigNat(n \div 1000)

RECURSIVE BigTimesFrom(_, _, _, _)
BigTimesFrom(x, k, i, carry) ==
    IF i > Len(x) THEN BigNat(carry)
    ELSE <<(x[i] * k + carry) % 1000>>
         \o BigTimesFrom(x, k, i + 1, (x[i] * k + carry) \div 1000)

\* x * k for a machine integer k
BigTimes(x, k) == BigTimesFrom(x, k, 1, 0)

BigDigit(x, i) == IF i <= Len(x) THEN x[i] ELSE 0

RECURSIVE BigLeqFrom(_, _, _)
BigLeqFrom(x, y, i) ==
    IF i = 0 THEN TRUE
    ELSE IF BigDigit(x, i) # BigDigit(y, i) THEN BigDigit(x, i) < BigDigit(y, i)
    ELSE BigLeqFrom(x, y, i - 1)

\* x <= y
BigLeq(x, y) == BigLeqFrom(x, y, Max(Len(x), Len(y)))

\* m / 10^6 <= dot / sqrt(uu * vv), decided exactly as
\* m^2 * uu * vv <= 10^12 * dot^2
CosineAtLeast(m, dot, uu, vv) ==
    BigLeq(BigTimes(BigTimes(BigTimes(BigNat(uu), vv), m), m),
           <<0, 0, 0, 0>> \o BigTimes(BigNat(dot), dot))

\* the largest m in lo..hi with m / 10^6 <= dot / sqrt(uu * vv)
RECURSIVE CosineFloor(_, _, _, _, _)
CosineFloor(dot, uu, vv, lo, hi) ==
    IF lo >= hi THEN lo
    ELSE IF CosineAtLeast((lo + hi + 1) \div 2, dot, uu, vv)
         THEN CosineFloor(dot, uu, vv, (lo + hi + 1) \div 2, hi)
         ELSE CosineFloor(dot, uu, vv, lo, (lo + hi + 1) \div 2 - 1)

\* cosine_similarity(model_vector, student_vector)[0][0] in millionths, rounded
\* down: the tf-idf rows are the counts times the idf vector, a zero row
\* gives 0
TfIdfRow(counts, idf) == FlatMap(LAMBDA k : <<counts[k] * idf[k]>>, 1, Len(idf))

CosineOfNorms(dot, uu, vv) ==
    IF uu = 0 \/ vv = 0 THEN 0 ELSE CosineFloor(dot, uu, vv, 0, 1000000)

CosineOfRows(u, v) == CosineOfNorms(Dot(u, v), Dot(u, u), Dot(v, v))

Cosine(model_counts, student_counts, idf) ==
    CosineOfRows(TfIdfRow(model_counts, idf), TfIdfRow(student_counts, idf))

\* variant: the moderate tier is missing
interpret_similarity_no_moderate(similarity) ==
    IF similarity >= 900000 THEN "excellent_match"
    ELSE IF similarity >= 700000 THEN "good_match"
    ELSE IF similarity >= 300000 THEN "weak_match"
    ELSE "poor_match"

\* similarity in millionths
interpret_similarity(similarity) ==
    IF similarity >= 900000 THEN "excellent_match"
    ELSE IF similarity >= 700000 THEN "good_match"
    ELSE IF similarity >= 500000 THEN "moderate_match"
    ELSE IF similarity >= 300000 THEN "weak_match"
    ELSE "poor_match"

\* variant: when both penalties trigger only the stronger one is applied
calculate_confidence_one_penalty(student_answer, model_answer, similarity) ==
    LET student_words == WordCount(student_answer)
        model_words == WordCount(model_answer)
        short == IF student_words < 5 THEN 6000
                 ELSE IF student_words < 10 THEN 8000
                 ELSE 10000
        ratio == IF model_words > 0 /\ student_words > 3 * model_words THEN 7000
                 ELSE IF model_words > 0 /\ 10 * student_words < 3 * model_words THEN 8000
                 ELSE 10000
    IN  Min(short, ratio)

\* confidence in ten-thousandths
calculate_confidence(student_answer, model_answer, similarity) ==
    LET student_words == WordCount(student_answer)
        model_words == WordCount(model_answer)
        base == 10000
        short == IF student_words < 5 THEN (base * 6) \div 10
                 ELSE IF student_words < 10 THEN (base * 8) \div 10
                 ELSE base
    IN  IF model_words > 0
        THEN IF student_words > 3 * model_words THEN (short * 7) \div 10
             ELSE IF 10 * student_words < 3 * model_words THEN (short * 8) \div 10
             ELSE short
        ELSE short

EmptyAnswerResult ==
    [similarity_score |-> 0, percentage |-> 0, confidence |-> 10000,
     interpretation |-> "empty_answer", method |-> "tfidf_cosine"]

\* variant: the except branch returns no error field
ErrorResultNoField(message) ==
    [similarity_score |-> 0, percentage |-> 0, confidence |-> 5000,
     interpretation |-> "calculation_error", method |-> "tfidf_cosine"]

\* the except ValueError branch
ErrorResult(message) ==
    [similarity_score |-> 0, percentage |-> 0, confidence |-> 5000,
     interpretation |-> "calculation_error", error |-> message,
     method |-> "tfidf_cosine"]

\* round(x, 4) of a similarity given in millionths, rounded down: the fourth
\* decimal goes up from the half on.  (A cosine that is exactly a half of the
\* fourth decimal is not a double; the float lies on one side of it.)
RoundSimilarity(similarity) == (similarity + 50) \div 100

\* the interpretation, the confidence and the returned dict, from the clamped
\* similarity in millionths
SimilarityResult(student_answer, model_answer, similarity) ==
    [similarity_score |-> RoundSimilarity(similarity),
     percentage |-> RoundSimilarity(similarity),
     confidence |-> Round(calculate_confidence(student_answer, model_answer, similarity), 1),
     interpretation |-> interpret_similarity(similarity),
     method |-> "tfidf_cosine"]

\* transform of the counts X on a vectorizer whose fitted idf vector is idf,
\* then the rest of the try block.  The library checks the number of features
\* of X against the fitted one and raises ValueError when they differ.
Transform(student_answer, model_answer, X, idf) ==
    IF Len(idf) # Len(X[1])
    THEN ErrorResult("X has a different number of features than the fitted transformer")
    ELSE SimilarityResult(student_answer, model_answer,
                          Max(0, Min(1000000, Cosine(X[1], X[2], idf))))

\* the try block once fit_transform has fitted, or raised
FitTransform(student_answer, model_answer, fit) ==
    IF ~fit.ok
    THEN [result |-> ErrorResult(fit.error),
          vectorizer |-> <<[fitted |-> FALSE, idf |-> <<>>]>>]
    ELSE [result |-> Transform(student_answer, model_answer, fit.X, fit.idf),
          vectorizer |-> <<[fitted |-> TRUE, idf |-> fit.idf]>>]

\* calculate_similarity run with no other call in flight: the result, and the
\* vectorizer object it leaves in self.vectorizer (<<>>: attribute not assigned)
SimilarityRun(self, student_answer, model_answer, additional_context) ==
    IF IsBlank(student_answer)
    THEN [result |-> EmptyAnswerResult, vectorizer |-> <<>>]
    ELSE FitTransform(student_answer, model_answer,
                      Fit(self, Corpus(student_answer, model_answer, additional_context)))

calculate_similarity(self, student_answer, model_answer, additional_context) ==
    SimilarityRun(self, student_answer, model_answer, additional_context).result

-----------------------------------------------------------------------------
(* HybridScorer                                                            *)

\* abs(total - 1.0) > 0.01 in double arithmetic, for weights in [0, 1] that
\* are multiples of 0.001, given in thousandths.  Away from the tolerance the
\* comparison is the exact one.  A sum of exactly 1.01 or 0.99 computes to a
\* difference of 0.010000000000000009, which is greater than 0.01, except for
\* the twelve pairs with one weight in 0.053..0.058 and the sum 0.99, whose
\* float sum is 0.9900000000000001.
ToleranceExceeded(rubric_weight, similarity_weight) ==
    LET total == rubric_weight + similarity_weight
        diff == IF total >= 1000 THEN total - 1000 ELSE 1000 - total
    IN  \/ diff > 10
        \/ /\ diff = 10
           /\ ~(total = 990 /\ Min(rubric_weight, similarity_weight) \in 53..58)

\* the checks of __init__, weights in thousandths
WeightsAccepted(rubric_weight, similarity_weight) ==
    /\ 0 <= rubric_weight /\ rubric_weight <= 1000
    /\ 0 <= similarity_weight /\ similarity_weight <= 1000
    /\ ~ToleranceExceeded(rubric_weight, similarity_weight)

\* <<object>>, or <<>> when __init__ raises ValueError
HybridScorerNew(rubric_weight, similarity_weight) ==
    IF WeightsAccepted(rubric_weight, similarity_weight)
    THEN <<[rubric_weight |-> rubric_weight, similarity_weight |-> similarity_weight]>>
    ELSE <<>>

create_default_hybrid_scorer == HybridScorerNew(600, 400)

\* variant: the combined confidence is weighted like the percentage
combine_scores_weighted_confidence(self, rubric_result, similarity_result) ==
    LET rubric_percentage == Get(rubric_result, "percentage", 0)
        similarity_percentage == Get(similarity_result, "percentage", 0)
        final_percentage == rubric_percentage * self.rubric_weight
                            + similarity_percentage * self.similarity_weight
        rubric_confidence == Get(rubric_result, "confidence", 10000)
        similarity_confidence == Get(similarity_result, "confidence", 10000)
    IN  [final_percentage |-> Round(final_percentage, 1000),
         rubric_component |->
            [percentage |-> rubric_percentage,
             weight |-> self.rubric_weight,
             contribution |-> Round(rubric_percentage * self.rubric_weight, 1000)],
         similarity_component |->
            [percentage |-> similarity_percentage,
             weight |-> self.similarity_weight,
             contribution |-> Round(similarity_percentage * self.similarity_weight, 1000)],
         confidence |-> Round(rubric_confidence * self.rubric_weight
                              + similarity_confidence * self.similarity_weight, 1000),
         method |-> "hybrid_rubric_similarity",
         rubric_details |-> rubric_result,
         similarity_details |-> similarity_result]

combine_scores(self, rubric_result, similarity_result) ==
    LET rubric_percentage == Get(rubric_result, "percentage", 0)
        similarity_percentage == Get(similarity_result, "percentage", 0)
        \* hundredths times thousandths
        final_percentage == rubric_percentage * self.rubric_weight
                            + similarity_percentage * self.similarity_weight
        rubric_confidence == Get(rubric_result, "confidence", 10000)
        similarity_confidence == Get(similarity_result, "confidence", 10000)
    IN  [final_percentage |-> Round(final_percentage, 1000),
         rubric_component |->
            [percentage |-> rubric_percentage,
             weight |-> self.rubric_weight,
             contribution |-> Round(rubric_percentage * self.rubric_weight, 1000)],
         similarity_component |->
            [percentage |-> similarity_percentage,
             weight |-> self.similarity_weight,
             contribution |-> Round(similarity_percentage * self.similarity_weight, 1000)],
         confidence |-> Round(rubric_confidence + similarity_confidence, 2),
         method |-> "hybrid_rubric_similarity",
         rubric_details |-> rubric_result,
         similarity_details |-> similarity_result]

-----------------------------------------------------------------------------
(* evaluate.py                                                             *)

\* d[key] = value on a dict
SetItem(d, key, value) == [k \in DOMAIN d \cup {key} |-> IF k = key THEN value ELSE d[k]]

\* the three branches of evaluate_answer on the results of the two scorers;
\* a branch evaluates only the result it uses
EvaluateMode(mode, rubric_result, similarity_result) ==
    IF mode = "rubric"
    THEN SetItem(SetItem(rubric_result, "confidence", 10000), "method", "rubric_based")
    ELSE IF mode = "similarity" THEN similarity_result
    ELSE combine_scores(create_default_hybrid_scorer[1],
                        SetItem(rubric_result, "confidence", 10000), similarity_result)

EvaluateFields(student_answer, model_answer, rubric, mode) ==
    EvaluateMode(mode,
                 score_answer(create_default_scorer, student_answer, model_answer, rubric),
                 calculate_similarity(create_default_similarity_scorer,
                                      student_answer, model_answer, <<>>))

evaluate_answer(input_data, mode) ==
    EvaluateFields(Get(input_data, "student_answer", <<>>),
                   Get(input_data, "model_answer", <<>>),
                   Get(input_data, "rubric", <<>>), mode)

\* test_input of main()
test_input ==
    [student_answer |-> <<"P","h","o","t","o","s","y","n","t","h","e","s","i","s"," ","i","s"," ","t","h","e"," ","p","r","o","c","e","s","s"," ","w","h","e","r","e"," ","p","l","a","n","t","s"," ","c","o","n","v","e","r","t"," ","s","u","n","l","i","g","h","t"," ","i","n","t","o"," ","e","n","e","r","g","y"," ","u","s","i","n","g"," ","c","h","l","o","r","o","p","h","y","l","l"," ","i","n"," ","t","h","e","i","r"," ","l","e","a","v","e","s",".">>,
     model_answer |-> <<"P","h","o","t","o","s","y","n","t","h","e","s","i","s"," ","i","s"," ","t","h","e"," ","p","r","o","c","e","s","s"," ","b","y"," ","w","h","i","c","h"," ","p","l","a","n","t","s"," ","u","s","e"," ","s","u","n","l","i","g","h","t",","," ","w","a","t","e","r",","," ","a","n","d"," ","c","a","r","b","o","n"," ","d","i","o","x","i","d","e"," ","t","o"," ","p","r","o","d","u","c","e"," ","g","l","u","c","o","s","e"," ","a","n","d"," ","o","x","y","g","e","n",".">>,
     rubric |-> <<
        [keypoint |-> "Mentions sunlight as energy source",
         keywords |-> <<<<"s","u","n","l","i","g","h","t">>, <<"l","i","g","h","t">>, <<"s","o","l","a","r">>>>,
         weight |-> 2, required |-> TRUE],
        [keypoint |-> "Identifies chlorophyll role",
         keywords |-> <<<<"c","h","l","o","r","o","p","h","y","l","l">>, <<"g","r","e","e","n"," ","p","i","g","m","e","n","t">>>>,
         weight |-> 2, required |-> FALSE],
        [keypoint |-> "Mentions carbon dioxide as input",
         keywords |-> <<<<"c","a","r","b","o","n"," ","d","i","o","x","i","d","e">>, <<"C","O","2">>>>,
         weight |-> 2, required |-> TRUE],
        [keypoint |-> "Mentions water as input",
         keywords |-> <<<<"w","a","t","e","r">>, <<"H","2","O">>>>,
         weight |-> 1, required |-> TRUE],
        [keypoint |-> "Identifies glucose as output",
         keywords |-> <<<<"g","l","u","c","o","s","e">>, <<"s","u","g","a","r">>, <<"e","n","e","r","g","y">>>>,
         weight |-> 2, required |-> TRUE],
        [keypoint |-> "Mentions oxygen as output",
         keywords |-> <<<<"o","x","y","g","e","n">>, <<"O","2">>>>,
         weight |-> 1, required |-> TRUE]>>]

-----------------------------------------------------------------------------
(* Bounds and the inputs the operations are called with                    *)

MaxItems == 2       \* rubric items per rubric
MaxWords == 2       \* words per generated answer text
NumThreads == 2     \* concurrent calls of calculate_similarity

Threads == 1..NumThreads

Words == {<<"c","a","t">>, <<"d","o","g">>, <<"t","h","e">>}

RECURSIVE JoinWords(_, _)
JoinWords(ws, i) ==
    IF i > Len(ws) THEN <<>>
    ELSE ws[i] \o (IF i < Len(ws) THEN <<" ">> ELSE <<>>) \o JoinWords(ws, i + 1)

\* the texts of up to MaxWords words, single-spaced
WordTexts == {JoinWords(ws, 1) : ws \in UNION {[1..n -> Words] : n \in 0..MaxWords}}

\* blank answers, mixed case, runs of whitespace, punctuation, a one-letter word
OddTexts == {<<" ","\t">>, <<"C","a","t"," "," ","D","O","G">>, <<" ","t","h","e","\t","c","a","t"," ">>, <<"c","o","n","c","a","t",".">>, <<"a">>}

SimTexts == WordTexts \cup OddTexts

RubricStudents ==
    {<<>>, <<" ","\t">>, <<"c","a","t">>, <<"C","a","t"," ","d","o","g">>, <<" ","t","h","e","\t","c","a","t"," ">>, <<"c","o","n","c","a","t",".">>, <<"d","o","g"," ","a","t"," ","b","i","r","d">>,
     <<"b","i","r","d">>}

ModelAnswers == {<<>>, <<"t","h","e"," ","c","a","t">>}

RubricItems ==
    {[keypoint |-> "K1", keywords |-> <<<<"c","a","t">>>>, weight |-> 2, required |-> TRUE],
     [keypoint |-> "K2", keywords |-> <<<<"c","a","t">>, <<"d","o","g">>>>, weight |-> 1, required |-> FALSE],
     [keypoint |-> "K1", keywords |-> <<<<"d","o","g">>, <<"a","t">>, <<"C","a","t">>>>, weight |-> 1],
     [keypoint |-> "K2", keywords |-> <<<<"c","a","t">>, <<"c","a","t">>>>, weight |-> 2],
     [keypoint |-> "K3", keywords |-> <<>>, weight |-> 3, required |-> TRUE],
     [keypoint |-> "K4", weight |-> 1],
     [keypoint |-> "K3", keywords |-> <<<<"T","h","e"," "," ","C","a","t">>, <<"d","o","g">>, <<"b","i","r","d">>>>, weight |-> 2],
     [keypoint |-> "K4", keywords |-> <<<<>>, <<"B","i","r","d">>>>, weight |-> 3, required |-> FALSE]}

Rubrics == UNION {[1..n -> RubricItems] : n \in 0..MaxItems}

Contexts == {<<>>, <<<<"d","o","g"," ","c","a","t">>>>}

NgramRanges == {<<1, 1>>, <<1, 2>>}
MinDfs == {1, 2}

\* combiner weights in thousandths: out of range, in range with sums inside,
\* outside and exactly at the tolerance (0.5 + 0.49, 0.6 + 0.41, 0.055 + 0.935)
WeightValues == {0 - 100, 0, 5, 55, 400, 405, 410, 490, 500, 595, 600, 935, 1000, 1100}

\* component results handed to combine_scores: the fields it reads, with
\* percentages and confidences the two scorers produce; the rubric ones with
\* and without the confidence evaluate_answer adds
RubricResults ==
    LET plain == {[score |-> p \div 50, max_score |-> 2, percentage |-> p,
                   matched_keypoints |-> <<>>, missing_keypoints |-> <<>>,
                   breakdown |-> <<>>] : p \in {0, 3333, 5000, 6667, 10000}}
    IN  plain \cup {SetItem(r, "confidence", 10000) : r \in plain}

SimilarityResults ==
    {[similarity_score |-> p, percentage |-> p, confidence |-> c,
      interpretation |-> interpret_similarity(100 * p), method |-> "tfidf_cosine"] :
        p \in {0, 1084, 4508, 7071, 10000}, c \in {4200, 4800, 6000, 8000, 10000}}
    \cup {EmptyAnswerResult, ErrorResult("empty vocabulary"),
          [similarity_score |-> 7071, percentage |-> 7071]}

EvalInputs ==
    {[student_answer |-> s, model_answer |-> m, rubric |-> r] :
        s \in SimTexts, m \in {<<"c","a","t">>, <<"t","h","e"," ","c","a","t"," ","d","o","g">>}, r \in [1..1 -> RubricItems]}
    \cup {[model_answer |-> <<"c","a","t">>], [student_answer |-> <<"c","a","t">>]}

Modes == {"rubric", "similarity", "hybrid"}

ConcTexts == {<<>>, <<"t","h","e">>, <<"c","a","t">>, <<"d","o","g">>, <<"c","a","t"," ","d","o","g">>, <<"d","o","g"," ","c","a","t">>}

\* an answer: a times "cat" then b times "dog"
CatsDogs(a, b) == JoinWords([i \in 1..(a + b) |-> IF i <= a THEN <<"c","a","t">> ELSE <<"d","o","g">>], 1)

\* longer answers: word counts on both sides of the limits of the confidence
\* (5 and 10 words, length ratios 3 and 0.3), and word mixes whose cosine is
\* close to a tier threshold
LongTexts ==
    {CatsDogs(c[1], c[2]) :
        c \in {<<1, 0>>, <<3, 0>>, <<4, 0>>, <<5, 0>>, <<9, 0>>, <<10, 0>>, <<31, 0>>,
               <<34, 0>>, <<2, 12>>, <<15, 3>>, <<5, 5>>, <<9, 24>>}}

\* the calls a caller can make
ScoreAnswerCalls(students, models, rubrics) ==
    {[op |-> "score_answer", student_answer |-> s, model_answer |-> m, rubric |-> r] :
        s \in students, m \in models, r \in rubrics}

CalculateSimilarityCalls(students, models, contexts) ==
    {[op |-> "calculate_similarity", student_answer |-> s, model_answer |-> m,
      additional_context |-> c] : s \in students, m \in models, c \in contexts}

ConstructCalls ==
    {[op |-> "HybridScorer", rubric_weight |-> rw, similarity_weight |-> sw] :
        rw \in WeightValues, sw \in WeightValues}

CombineScoresCalls ==
    {[op |-> "combine_scores", rubric_result |-> rr, similarity_result |-> sr] :
        rr \in RubricResults, sr \in SimilarityResults}

EvaluateCalls ==
    {[op |-> "evaluate_answer", input_data |-> i, mode |-> mode] :
        i \in EvalInputs, mode \in Modes}
    \cup {[op |-> "main", mode |-> mode] : mode \in Modes}

-----------------------------------------------------------------------------
(* State machine                                                           *)

Unfitted == [fitted |-> FALSE, idf |-> <<>>]

\* the state after the scorers are constructed; calls is what the caller is
\* about to call, in order
InitWith(rubric_scorer, similarity_scorer, calls) ==
    /\ rubricScorer = rubric_scorer
    /\ simScorer = similarity_scorer
    /\ heap = [v \in Threads |-> Unfitted]
    /\ hybrid = <<>>
    /\ pending = calls
    /\ last = [op |-> "none"]
    /\ pc = [t \in Threads |-> "idle"]
    /\ targs = [t \in Threads |-> <<>>]
    /\ tvec = [t \in Threads |-> 0]
    /\ tres = [t \in Threads |-> <<>>]

Idle == \A t \in Threads : pc[t] = "idle"

NextCallIs(op) == pending # <<>> /\ Head(pending).op = op

\* RubricScorer.score_answer on the scorer object
ScoreAnswer ==
    /\ NextCallIs("score_answer")
    /\ LET c == Head(pending)
       IN  last' = [c EXCEPT !.op = "score_answer"] @@
                   [result |-> score_answer(rubricScorer, c.student_answer,
                                            c.model_answer, c.rubric)]
    /\ pending' = Tail(pending)
    /\ UNCHANGED <<rubricScorer, simScorer, heap, hybrid, pc, targs, tvec, tres>>

\* SimilarityScorer.calculate_similarity called with no other call in flight;
\* the vectorizer it creates is object 1
SimilarityReturns(c, run) ==
    /\ IF run.vectorizer = <<>>
       THEN UNCHANGED <<simScorer, heap>>
       ELSE /\ simScorer' = [simScorer EXCEPT !.vectorizer = 1]
            /\ heap' = [heap EXCEPT ![1] = run.vectorizer[1]]
    /\ last' = c @@ [result |-> run.result]

CalculateSimilarity ==
    /\ NextCallIs("calculate_similarity")
    /\ Idle
    /\ SimilarityReturns(Head(pending),
                         SimilarityRun(simScorer, Head(pending).student_answer,
                                       Head(pending).model_answer,
                                       Head(pending).additional_context))
    /\ pending' = Tail(pending)
    /\ UNCHANGED <<rubricScorer, hybrid, pc, targs, tvec, tres>>

\* HybridScorer(rubric_weight, similarity_weight): the caller holds the new
\* object, or keeps what it held when the constructor raises
Construct ==
    /\ NextCallIs("HybridScorer")
    /\ LET c == Head(pending)
           new == HybridScorerNew(c.rubric_weight, c.similarity_weight)
       IN  /\ hybrid' = IF new # <<>> THEN new ELSE hybrid
           /\ last' = c @@ [raised |-> new = <<>>, result |-> new]
    /\ pending' = Tail(pending)
    /\ UNCHANGED <<rubricScorer, simScorer, heap, pc, targs, tvec, tres>>

\* HybridScorer.combine_scores on the object the caller holds
CombineScores ==
    /\ NextCallIs("combine_scores")
    /\ hybrid # <<>>
    /\ LET c == Head(pending)
       IN  last' = c @@ [self |-> hybrid[1],
                         result |-> combine_scores(hybrid[1], c.rubric_result,
                                                   c.similarity_result)]
    /\ pending' = Tail(pending)
    /\ UNCHANGED <<rubricScorer, simScorer, heap, hybrid, pc, targs, tvec, tres>>

\* evaluate_answer builds its own scorers, so no object of the state changes
EvaluateAnswer ==
    /\ NextCallIs("evaluate_answer")
    /\ last' = Head(pending) @@
                [result |-> evaluate_answer(Head(pending).input_data, Head(pending).mode)]
    /\ pending' = Tail(pending)
    /\ UNCHANGED <<rubricScorer, simScorer, heap, hybrid, pc, targs, tvec, tres>>

\* main() run with --test mode
MainTest ==
    /\ NextCallIs("main")
    /\ last' = Head(pending) @@ [result |-> evaluate_answer(test_input, Head(pending).mode)]
    /\ pending' = Tail(pending)
    /\ UNCHANGED <<rubricScorer, simScorer, heap, hybrid, pc, targs, tvec, tres>>

\* calculate_similarity on the shared scorer, thread t, up to the creation of
\* the vectorizer: the empty-answer return, or self.vectorizer = TfidfVectorizer(...)
SimCall(t, student_answer, model_answer, additional_context) ==
    /\ pc[t] = "idle"
    /\ targs' = [targs EXCEPT ![t] = <<student_answer, model_answer, additional_context>>]
    /\ IF IsBlank(student_answer)
       THEN /\ tres' = [tres EXCEPT ![t] = <<EmptyAnswerResult>>]
            /\ pc' = [pc EXCEPT ![t] = "done"]
            /\ UNCHANGED <<simScorer, heap>>
       ELSE /\ heap' = [heap EXCEPT ![t] = Unfitted]
            /\ simScorer' = [simScorer EXCEPT !.vectorizer = t]
            /\ pc' = [pc EXCEPT ![t] = "created"]
            /\ UNCHANGED tres
    /\ UNCHANGED <<rubricScorer, hybrid, pending, last, tvec>>

\* self.vectorizer.fit_transform(corpus), first half: the attribute is read,
\* and the object it holds now learns the vocabulary and idf of this corpus
Fitted(t, v, fit) ==
    /\ tvec' = [tvec EXCEPT ![t] = v]
    /\ IF fit.ok
       THEN /\ heap' = [heap EXCEPT ![v] = [fitted |-> TRUE, idf |-> fit.idf]]
            /\ pc' = [pc EXCEPT ![t] = "fitted"]
            /\ UNCHANGED tres
       ELSE /\ tres' = [tres EXCEPT ![t] = <<ErrorResult(fit.error)>>]
            /\ pc' = [pc EXCEPT ![t] = "done"]
            /\ UNCHANGED heap

SimFit(t) ==
    /\ pc[t] = "created"
    /\ Fitted(t, simScorer.vectorizer,
              Fit(simScorer, Corpus(targs[t][1], targs[t][2], targs[t][3])))
    /\ UNCHANGED <<rubricScorer, simScorer, hybrid, pending, last, targs>>

\* fit_transform, second half, and the rest of the try block: the counts of
\* this corpus are weighted by the idf the object holds now
SimTransform(t) ==
    /\ pc[t] = "fitted"
    /\ tres' = [tres EXCEPT ![t] =
                  <<Transform(targs[t][1], targs[t][2],
                              Fit(simScorer, Corpus(targs[t][1], targs[t][2], targs[t][3])).X,
                              heap[tvec[t]].idf)>>]
    /\ pc' = [pc EXCEPT ![t] = "done"]
    /\ UNCHANGED <<rubricScorer, simScorer, heap, hybrid, pending, last, targs, tvec>>

-----------------------------------------------------------------------------
(* Specifications                                                          *)

\* both scorers on the same answer, one call after the other
Init ==
    \E s \in RubricStudents, m \in ModelAnswers, r \in Rubrics, c \in Contexts :
        \E c1 \in ScoreAnswerCalls({s}, {m}, {r}),
           c2 \in CalculateSimilarityCalls({s}, {m}, {c}) :
            InitWith(create_default_scorer, create_default_similarity_scorer, <<c1, c2>>)

Next == ScoreAnswer \/ CalculateSimilarity

Spec == Init /\ [][Next]_vars

\* the rubric scorer in each configuration
InitRubric ==
    \E cs \in BOOLEAN, pm \in BOOLEAN :
        \E c \in ScoreAnswerCalls(RubricStudents, ModelAnswers, Rubrics) :
            InitWith(RubricScorerNew(cs, pm), create_default_similarity_scorer, <<c>>)

NextRubric == ScoreAnswer

SpecRubric == InitRubric /\ [][NextRubric]_vars

\* the similarity scorer in each configuration, one call at a time
InitSim ==
    \E ng \in NgramRanges, md \in MinDfs :
        \E c \in CalculateSimilarityCalls(SimTexts, SimTexts, Contexts) :
            InitWith(create_default_scorer, SimilarityScorerNew(ng, md), <<c>>)

NextSim == CalculateSimilarity

SpecSim == InitSim /\ [][NextSim]_vars

\* the similarity scorer on longer answers
InitLong ==
    \E ng \in NgramRanges, md \in MinDfs :
        \E c \in CalculateSimilarityCalls(LongTexts, LongTexts \cup {<<>>}, {<<>>}) :
            InitWith(create_default_scorer, SimilarityScorerNew(ng, md), <<c>>)

NextLong == CalculateSimilarity

SpecLong == InitLong /\ [][NextLong]_vars

\* the combiner: constructed, then used
InitHybrid ==
    \E c1 \in ConstructCalls, c2 \in CombineScoresCalls :
        InitWith(create_default_scorer, create_default_similarity_scorer, <<c1, c2>>)

NextHybrid == Construct \/ CombineScores

SpecHybrid == InitHybrid /\ [][NextHybrid]_vars

\* the orchestrator
InitEval ==
    \E c \in EvaluateCalls :
        InitWith(create_default_scorer, create_default_similarity_scorer, <<c>>)

NextEval == EvaluateAnswer \/ MainTest

SpecEval == InitEval /\ [][NextEval]_vars

\* concurrent calls on one shared SimilarityScorer, one call per thread
InitConc == InitWith(create_default_scorer, create_default_similarity_scorer, <<>>)

NextConc ==
    \E t \in Threads :
        \/ \E s \in ConcTexts, m \in ConcTexts \ {<<>>} : SimCall(t, s, m, <<>>)
        \/ SimFit(t)
        \/ SimTransform(t)

SpecConc == InitConc /\ [][NextConc]_vars

-----------------------------------------------------------------------------
(* Properties                                                              *)

\* C1: for every rubric and student answer, the matched_keypoints and
\* missing_keypoints that score_answer returns partition the rubric's
\* keypoints: no keypoint is in both lists (no overlap), every rubric keypoint
\* is in one of them (no omission), and the two lists hold one entry per
\* rubric item (exactly once).
C1_KeypointsPartition ==
    last.op = "score_answer" =>
        LET matched == last.result.matched_keypoints
            missing == last.result.missing_keypoints
            inMatched == {matched[i] : i \in 1..Len(matched)}
            inMissing == {missing[i] : i \in 1..Len(missing)}
        IN  /\ inMatched \cap inMissing = {}
            /\ inMatched \cup inMissing
                 = {last.rubric[i].keypoint : i \in 1..Len(last.rubric)}
            /\ Len(matched) + Len(missing) = Len(last.rubric)

\* a call where one rubric item is matched and another one, with the same
\* keypoint label, is missed
C1_Witness ==
    /\ last.op = "score_answer"
    /\ Len(last.rubric) = 2
    /\ last.rubric[1].keypoint = last.rubric[2].keypoint
    /\ Len(last.result.matched_keypoints) = 1
    /\ Len(last.result.missing_keypoints) = 1

\* C2: for every breakdown item of score_answer (weights are positive, the
\* keywords list may be empty or repeat a keyword): 0 <= earned <= weight;
\* earned = weight and status = complete iff all the item's keywords matched;
\* earned = 0 and status = missing iff none matched; status = partial
\* otherwise.  A keyword matched when the matching rule finds it in the
\* answer; "all matched" is said of a list that has keywords.
C2_EarnedAndStatus ==
    last.op = "score_answer" =>
        \A i \in 1..Len(last.result.breakdown) :
            LET b == last.result.breakdown[i]
                keywords == Get(last.rubric[i], "keywords", <<>>)
                answer == normalize_text(rubricScorer, last.student_answer)
                found(j) == KeywordFound(rubricScorer,
                                         normalize_text(rubricScorer, keywords[j]), answer)
                allMatched == keywords # <<>> /\ \A j \in 1..Len(keywords) : found(j)
                noneMatched == \A j \in 1..Len(keywords) : ~found(j)
            IN  /\ 0 <= b.earned /\ b.earned <= 100 * b.weight
                /\ (b.earned = 100 * b.weight /\ b.status = "complete") <=> allMatched
                /\ (b.earned = 0 /\ b.status = "missing") <=> noneMatched
                /\ (~allMatched /\ ~noneMatched) => b.status = "partial"

\* an item whose keywords list repeats one keyword, found in the answer
C2_Witness ==
    /\ last.op = "score_answer"
    /\ Len(last.rubric) = 1
    /\ last.student_answer = <<"c","a","t">>
    /\ Get(last.rubric[1], "keywords", <<>>) = <<<<"c","a","t">>, <<"c","a","t">>>>
    /\ Len(last.result.breakdown) = 1

\* C3: a combiner with the default weights (0.6, 0.4) returns, for every pair
\* of component results, final_percentage = rubric_percentage * 0.6 +
\* similarity_percentage * 0.4 to two decimals, and confidence = the plain
\* mean of the two input confidences, a missing confidence counting as 1.0.
C3_DefaultWeightsCombine ==
    (last.op = "combine_scores"
        /\ last.self = [rubric_weight |-> 600, similarity_weight |-> 400]) =>
        LET exact == 600 * Get(last.rubric_result, "percentage", 0)
                     + 400 * Get(last.similarity_result, "percentage", 0)
            off == 1000 * last.result.final_percentage - exact
            confidences == Get(last.rubric_result, "confidence", 10000)
                           + Get(last.similarity_result, "confidence", 10000)
        IN  /\ 0 - 500 <= off /\ off <= 500
            /\ 2 * last.result.confidence = confidences

\* default weights, unequal percentages, a rubric result without a confidence
\* and a similarity result with a low one
C3_Witness ==
    /\ last.op = "combine_scores"
    /\ last.self = [rubric_weight |-> 600, similarity_weight |-> 400]
    /\ "confidence" \notin DOMAIN last.rubric_result
    /\ last.rubric_result.percentage = 3333
    /\ Get(last.similarity_result, "confidence", 10000) = 4200
    /\ last.similarity_result.percentage = 4508

\* C4: constructing a HybridScorer raises, and leaves the caller without a
\* combiner to call combine_scores on, whenever a weight is outside [0, 1] or
\* the weights' sum is more than 0.01 away from 1.0; it succeeds, with the
\* weights stored, for every other pair, a sum exactly 0.01 away included.
C4_ConstructionValidates ==
    LET valid(rw, sw) ==
            /\ 0 <= rw /\ rw <= 1000
            /\ 0 <= sw /\ sw <= 1000
            /\ 990 <= rw + sw /\ rw + sw <= 1010
    IN  /\ last.op = "HybridScorer" =>
              /\ last.raised <=> ~valid(last.rubric_weight, last.similarity_weight)
              /\ last.raised => last.result = <<>> /\ hybrid = <<>> /\ ~ENABLED CombineScores
              /\ ~last.raised =>
                    hybrid = <<[rubric_weight |-> last.rubric_weight,
                                similarity_weight |-> last.similarity_weight]>>
        /\ hybrid # <<>> => valid(hybrid[1].rubric_weight, hybrid[1].similarity_weight)
        /\ last.op = "combine_scores" =>
              valid(last.self.rubric_weight, last.self.similarity_weight)

\* the weights (0.5, 0.49), whose sum is 0.99, were given to the constructor
C4_Witness ==
    /\ last.op = "HybridScorer"
    /\ last.rubric_weight = 500
    /\ last.similarity_weight = 490

\* C5: for every HybridScorer construction accepts and component results with
\* percentages in [0, 100], the final_percentage of combine_scores is in
\* [0, 100].
C5_FinalPercentageInRange ==
    (last.op = "combine_scores"
        /\ Get(last.rubric_result, "percentage", 0) \in 0..10000
        /\ Get(last.similarity_result, "percentage", 0) \in 0..10000) =>
        last.result.final_percentage \in 0..10000

\* accepted weights (0.6, 0.405) combined two results of 100 percent
C5_Witness ==
    /\ last.op = "combine_scores"
    /\ last.self = [rubric_weight |-> 600, similarity_weight |-> 405]
    /\ Get(last.rubric_result, "percentage", 0) = 10000
    /\ Get(last.similarity_result, "percentage", 0) = 10000

\* C6: when the student answer is empty or all whitespace, for every rubric
\* and model answer, score_answer returns score 0, max_score = the sum of the
\* rubric weights, percentage 0, every rubric keypoint in missing_keypoints,
\* no matched keypoint and an empty breakdown; calculate_similarity returns
\* similarity_score 0.0, confidence 1.0, interpretation 'empty_answer' and no
\* error field.
C6_BlankAnswer ==
    (last.op \in {"score_answer", "calculate_similarity"}
        /\ \A i \in 1..Len(last.student_answer) : last.student_answer[i] \in SpaceChars) =>
        /\ last.op = "score_answer" =>
              last.result =
                [score |-> 0,
                 max_score |-> SumOver(LAMBDA i : last.rubric[i].weight, 1, Len(last.rubric)),
                 percentage |-> 0,
                 matched_keypoints |-> <<>>,
                 missing_keypoints |-> [i \in 1..Len(last.rubric) |-> last.rubric[i].keypoint],
                 breakdown |-> <<>>]
        /\ last.op = "calculate_similarity" =>
              /\ last.result.similarity_score = 0
              /\ last.result.confidence = 10000
              /\ last.result.interpretation = "empty_answer"
              /\ "error" \notin DOMAIN last.result

\* both scorers were called on a whitespace-only answer, the rubric scorer
\* with a rubric of two items
C6_Witness ==
    /\ last.op = "calculate_similarity"
    /\ last.student_answer = <<" ","\t">>
    /\ last.model_answer = <<"t","h","e"," ","c","a","t">>
    /\ pending = <<>>

\* C7: the result of score_answer does not depend on model_answer: the call
\* returns what it returns with any other model answer, field by field.
C7_ModelAnswerIgnored ==
    last.op = "score_answer" =>
        \A m \in ModelAnswers :
            score_answer(rubricScorer, last.student_answer, m, last.rubric) = last.result

\* a call with a non-empty model answer that earned points
C7_Witness ==
    /\ last.op = "score_answer"
    /\ last.model_answer = <<"t","h","e"," ","c","a","t">>
    /\ last.student_answer = <<"C","a","t"," ","d","o","g">>
    /\ last.result.score > 0

\* C8: when the vector space cannot be built for a non-empty student answer
\* (no term is left for the vocabulary), calculate_similarity returns
\* similarity_score 0, percentage 0, confidence 0.5, interpretation
\* 'calculation_error' and an error field; no other result has an error field.
C8_VectorSpaceError ==
    last.op = "calculate_similarity" =>
        LET nonempty == \E i \in 1..Len(last.student_answer) :
                            last.student_answer[i] \notin SpaceChars
            docs == AnalyzeAll(simScorer, Corpus(last.student_answer, last.model_answer,
                                                 last.additional_context))
            degenerate == KeptTerms(simScorer, docs) = {}
        IN  /\ (nonempty /\ degenerate) =>
                  /\ last.result.similarity_score = 0
                  /\ last.result.percentage = 0
                  /\ last.result.confidence = 5000
                  /\ last.result.interpretation = "calculation_error"
                  /\ "error" \in DOMAIN last.result
            /\ "error" \in DOMAIN last.result => (nonempty /\ degenerate)

\* student and model answer made of stop words only
C8_Witness ==
    /\ last.op = "calculate_similarity"
    /\ last.student_answer = <<"t","h","e">>
    /\ last.model_answer = <<"t","h","e"," ","t","h","e">>
    /\ last.additional_context = <<>>
    /\ simScorer.min_df = 1

\* C9: on the photosynthesis example the default scorer gives max_score 10,
\* marks 'Mentions sunlight as energy source' and 'Identifies chlorophyll
\* role' complete with earned = weight, marks 'Identifies glucose as output'
\* partial with coverage 1/3, returns exactly the carbon dioxide, water and
\* oxygen keypoints as missing, and the score is the sum of the earned points.
C9_PhotosynthesisExample ==
    (last.op = "main" /\ last.mode \in {"rubric", "hybrid"}) =>
        LET r == IF last.mode = "rubric" THEN last.result ELSE last.result.rubric_details
            b == r.breakdown
        IN  /\ r.max_score = 10
            /\ Len(b) = 6
            /\ b[1].keypoint = "Mentions sunlight as energy source"
            /\ b[1].status = "complete" /\ b[1].earned = 100 * b[1].weight
            /\ b[2].keypoint = "Identifies chlorophyll role"
            /\ b[2].status = "complete" /\ b[2].earned = 100 * b[2].weight
            /\ b[5].keypoint = "Identifies glucose as output"
            /\ b[5].status = "partial" /\ b[5].matched_keywords = <<<<"e","n","e","r","g","y">>>>
            /\ b[5].earned = 67
            /\ r.missing_keypoints = <<"Mentions carbon dioxide as input",
                                       "Mentions water as input",
                                       "Mentions oxygen as output">>
            /\ r.score = b[1].earned + b[2].earned + b[5].earned

\* C9 as the code has it: 'solar' and 'green pigment' are not in the answer,
\* so the sunlight keypoint is partial with coverage 2/3 (earned 1.33) and the
\* chlorophyll keypoint partial with coverage 1/2 (earned 1.0); the glucose
\* keypoint is partial with coverage 1/3 (earned 0.67); these three are the
\* matched keypoints, the other three the missing ones; max_score 10,
\* score 3.0 = 2 * 2/3 + 2 * 1/2 + 2 * 1/3, percentage 30.
C9_PhotosynthesisPartialCredit ==
    (last.op = "main" /\ last.mode \in {"rubric", "hybrid"}) =>
        LET r == IF last.mode = "rubric" THEN last.result ELSE last.result.rubric_details
            b == r.breakdown
        IN  /\ r.max_score = 10
            /\ Len(b) = 6
            /\ b[1].keypoint = "Mentions sunlight as energy source"
            /\ b[1].status = "partial" /\ b[1].earned = 133
            /\ b[1].matched_keywords = <<<<"s","u","n","l","i","g","h","t">>, <<"l","i","g","h","t">>>>
            /\ b[1].missing_keywords = <<<<"s","o","l","a","r">>>>
            /\ b[2].keypoint = "Identifies chlorophyll role"
            /\ b[2].status = "partial" /\ b[2].earned = 100
            /\ b[2].matched_keywords = <<<<"c","h","l","o","r","o","p","h","y","l","l">>>>
            /\ b[5].keypoint = "Identifies glucose as output"
            /\ b[5].status = "partial" /\ b[5].earned = 67
            /\ b[5].matched_keywords = <<<<"e","n","e","r","g","y">>>>
            /\ \A i \in {3, 4, 6} : b[i].status = "missing" /\ b[i].earned = 0
            /\ r.matched_keypoints = <<"Mentions sunlight as energy source",
                                       "Identifies chlorophyll role",
                                       "Identifies glucose as output">>
            /\ r.missing_keypoints = <<"Mentions carbon dioxide as input",
                                       "Mentions water as input",
                                       "Mentions oxygen as output">>
            /\ r.score = 300
            /\ r.percentage = 3000

\* main ran the example in rubric mode
C9_Witness ==
    /\ last.op = "main"
    /\ last.mode = "rubric"
    /\ last.result.method = "rubric_based"
    /\ Len(last.result.breakdown) = 6

\* C10: under any interleaving of concurrent calls on one SimilarityScorer,
\* each call of calculate_similarity works on the vector space it built itself
\* and returns the result it returns when run alone.
C10_SameResultAsAlone ==
    \A t \in Threads :
        pc[t] = "done" =>
            tres[t] = <<calculate_similarity(simScorer, targs[t][1], targs[t][2],
                                             targs[t][3])>>

\* two calls have returned, one of them through a vectorizer another call
\* created
C10_Witness ==
    \E t \in Threads, u \in Threads :
        /\ t # u
        /\ pc[t] = "done" /\ pc[u] = "done"
        /\ tvec[t] = u

\* C11: for a non-empty student answer whose vector space is built, the
\* confidence of calculate_similarity is 1.0 times a short-answer factor (0.6
\* below 5 words, else 0.8 below 10 words, else 1) times a length-ratio
\* factor (0.7 when student words / model words > 3.0, 0.8 when it is < 0.3,
\* else 1; 1 when the model answer has no words); both may apply, no penalty
\* raises the confidence, and the confidence is in [0.42, 1].
C11_ConfidenceFactors ==
    (last.op = "calculate_similarity"
        /\ last.result.interpretation \notin {"empty_answer", "calculation_error"}) =>
        LET student_words == WordCount(last.student_answer)
            model_words == WordCount(last.model_answer)
            \* the factors in tenths
            short == IF student_words < 5 THEN 6 ELSE IF student_words < 10 THEN 8 ELSE 10
            ratio == IF model_words = 0 THEN 10
                     ELSE IF student_words > 3 * model_words THEN 7
                     ELSE IF 10 * student_words < 3 * model_words THEN 8
                     ELSE 10
        IN  /\ last.result.confidence = 100 * short * ratio
            /\ last.result.confidence <= 1000 * short
            /\ last.result.confidence <= 1000 * ratio
            /\ 4200 <= last.result.confidence /\ last.result.confidence <= 10000

\* a four-word answer to a one-word model answer: both penalties apply
C11_Witness ==
    /\ last.op = "calculate_similarity"
    /\ last.student_answer = <<"c","a","t"," ","c","a","t"," ","c","a","t"," ","c","a","t">>
    /\ last.model_answer = <<"c","a","t">>
    /\ last.result.interpretation = "excellent_match"
    /\ last.result.confidence = 4200

\* C12: in every result of the normal path of calculate_similarity,
\* similarity_score is in [0, 1] and interpretation is the tier the inclusive
\* thresholds assign to the returned similarity_score: excellent_match from
\* 0.9, good_match from 0.7, moderate_match from 0.5, weak_match from 0.3,
\* else poor_match.
C12_TierOfReturnedScore ==
    (last.op = "calculate_similarity"
        /\ last.result.interpretation \notin {"empty_answer", "calculation_error"}) =>
        /\ 0 <= last.result.similarity_score /\ last.result.similarity_score <= 10000
        /\ last.result.interpretation =
              (IF last.result.similarity_score >= 9000 THEN "excellent_match"
               ELSE IF last.result.similarity_score >= 7000 THEN "good_match"
               ELSE IF last.result.similarity_score >= 5000 THEN "moderate_match"
               ELSE IF last.result.similarity_score >= 3000 THEN "weak_match"
               ELSE "poor_match")

\* C12 as the code has it: the tier is taken from the clamped similarity
\* before it is rounded to four decimals.  So similarity_score is in [0, 1]
\* and interpretation is the tier of the returned similarity_score, except
\* that a returned score of exactly 0.9, 0.7, 0.5 or 0.3 may carry the tier
\* just below it (the similarity was rounded up onto the threshold).
C12_TierOfUnroundedScore ==
    (last.op = "calculate_similarity"
        /\ last.result.interpretation \notin {"empty_answer", "calculation_error"}) =>
        LET score == last.result.similarity_score
            tier == IF score >= 9000 THEN 4 ELSE IF score >= 7000 THEN 3
                    ELSE IF score >= 5000 THEN 2 ELSE IF score >= 3000 THEN 1 ELSE 0
            names == [t \in 0..4 |->
                        CASE t = 4 -> "excellent_match" [] t = 3 -> "good_match"
                          [] t = 2 -> "moderate_match" [] t = 1 -> "weak_match"
                          [] OTHER -> "poor_match"]
        IN  /\ 0 <= score /\ score <= 10000
            /\ \/ last.result.interpretation = names[tier]
               \/ /\ score \in {9000, 7000, 5000, 3000}
                  /\ last.result.interpretation = names[tier - 1]

\* the default scorer on an answer of 2 "cat" and 12 "dog" against a model
\* answer of 15 "cat" and 3 "dog": cosine 0.29999..., returned as 0.3
C12_Witness ==
    /\ last.op = "calculate_similarity"
    /\ simScorer.ngram_range = <<1, 2>> /\ simScorer.min_df = 1
    /\ last.student_answer = CatsDogs(2, 12)
    /\ last.model_answer = CatsDogs(15, 3)
    /\ last.result.similarity_score = 3000


\* the sum, as a fraction <<numerator, denominator>>, of weight * (number of
\* matched keywords / number of keywords) over the first i rubric items
RECURSIVE CreditSum(_, _, _)
CreditSum(rubric, breakdown, i) ==
    IF i = 0 THEN <<0, 1>>
    ELSE LET keywords == Get(rubric[i], "keywords", <<>>)
             den == Max(Len(keywords), 1)
             num == rubric[i].weight * Len(breakdown[i].matched_keywords)
             sum == CreditSum(rubric, breakdown, i - 1)
         IN  <<sum[1] * den + num * sum[2], sum[2] * den>>

\* C13 as stated: for every rubric and non-empty student answer the score of
\* score_answer equals the sum of the earned values of the returned breakdown
\* items, at two decimals, and the breakdown has one item per rubric item in
\* the input order.
C13_ScoreIsSumOfEarned ==
    (last.op = "score_answer" /\ ~IsBlank(last.student_answer)) =>
        LET b == last.result.breakdown
        IN  /\ Len(b) = Len(last.rubric)
            /\ \A i \in 1..Len(b) : b[i].keypoint = last.rubric[i].keypoint
            /\ last.result.score = SumOver(LAMBDA i : b[i].earned, 1, Len(b))

\* C13 as the code has it: the breakdown has one item per rubric item in the
\* input order, and the score is the sum of the items' unrounded credits
\* weight * matched keywords / keywords, rounded once to two decimals; the
\* earned values of the breakdown are rounded one by one, so their sum is
\* within 0.005 per item plus 0.005 of the score, not always equal to it.
C13_ScoreIsRoundedSumOfCredits ==
    (last.op = "score_answer" /\ ~IsBlank(last.student_answer)) =>
        LET b == last.result.breakdown
            n == Len(last.rubric)
        IN  /\ Len(b) = n
            /\ \A i \in 1..n : /\ b[i].keypoint = last.rubric[i].keypoint
                               /\ b[i].weight = last.rubric[i].weight
            /\ Len(b) = n =>
                  LET total == CreditSum(last.rubric, b, n)
                      off == last.result.score - SumOver(LAMBDA i : b[i].earned, 1, n)
                  IN  /\ last.result.score = Round(100 * total[1], total[2])
                      /\ 0 - ((n + 1) \div 2) <= off /\ off <= (n + 1) \div 2

\* two items of weight 2 with one keyword of three matched: earned 0.67 each,
\* score 1.33
C13_Witness ==
    /\ last.op = "score_answer"
    /\ last.student_answer = <<" ","t","h","e","\t","c","a","t"," ">>
    /\ Len(last.rubric) = 2
    /\ Len(last.result.breakdown) = 2
    /\ last.result.breakdown[1].earned = 67
    /\ last.result.breakdown[2].earned = 67
    /\ last.result.score = 133
====
